---------------------------- MODULE Spec2Model ----------------------------
(***************************************************************************)
(* A model of the vscode-docker extension host glue:                       *)
(*   - FROM_DIRECTIVE_PATTERN and DOCKERFILE_GLOB_PATTERN (dockerExtension) *)
(*   - quickPickImage (commands/utils/quick-pick-image.ts)                 *)
(*   - activate / initializeExtensionVariables and the ext namespace.      *)
(* Text is modelled as sequences of one-character strings.                 *)
(***************************************************************************)
EXTENDS Integers, Sequences, FiniteSets, TLC

VARIABLES
    parts,        \* the pieces the Dockerfile line under test was written from
    line,         \* the Dockerfile line handed to FROM_DIRECTIVE_PATTERN
    fromMatch,    \* <<line.match(FROM_DIRECTIVE_PATTERN)>>, or <<>> before the match is made
    fileName,     \* the last segment of the path under test
    path,         \* the file path handed to the Dockerfile glob
    globMatch,    \* <<whether path matches DOCKERFILE_GLOB_PATTERN>>, or <<>> before
    pickPc,       \* where the call of quickPickImage stands
    pickIncludeAll, \* its includeAll argument
    pickFetch,    \* how docker.getImageDescriptors settled
    pickItems,    \* the items handed to ext.ui.showQuickPick
    pickShown,    \* how many times ext.ui.showQuickPick was called
    pickUi,       \* how ext.ui.showQuickPick settled
    pickResult,   \* how quickPickImage settled
    actPc,        \* index of the next statement of activate
    actState,     \* notCalled, running, awaiting, bodyDone, initFailed, callbackFailed
    activateResult, \* none, pending, resolved, rejected: the promise activate returns
    ext,          \* the variables of the ext namespace
    injected,     \* the values of ext a test set before activation
    registered,   \* the providers and commands registered with the host
    hoverKeyInfo, \* the key table the registered Compose hover provider was built with
    consolidated, \* whether consolidateDefaultRegistrySettings has finished
    client,       \* the language client: none, starting, ready, stopped
    listener,     \* the configuration listener: none, attached, disposed
    timerSet,     \* whether the timer that loads the Azure account is pending
    azure,        \* tryGetAzureAccount: idle, loading, loaded
    commandRan,   \* none, or whether the last command callback found ext ready
    lastHover,    \* the last hover request and the table it consulted
    configCounts, \* how often the configuration listener ran and what it did so far
    lastConfigChange \* the last configuration change handled and what the listener did

fromVars == <<parts, line, fromMatch>>
globVars == <<fileName, path, globMatch>>
pickVars == <<pickPc, pickIncludeAll, pickFetch, pickItems, pickShown, pickUi, pickResult>>
actVars == <<actPc, actState, activateResult, ext, injected, registered, hoverKeyInfo,
             consolidated, client, listener, timerSet, azure, commandRan, lastHover,
             configCounts, lastConfigChange>>
vars == <<parts, line, fromMatch, fileName, path, globMatch,
          pickPc, pickIncludeAll, pickFetch, pickItems, pickShown, pickUi, pickResult,
          actPc, actState, activateResult, ext, injected, registered, hoverKeyInfo,
          consolidated, client, listener, timerSet, azure, commandRan, lastHover,
          configCounts, lastConfigChange>>

\* A result slot is empty until its operation has run.
NotRun == <<>>

\* Values that stand for nothing, for JavaScript's undefined and for its null.
None == [kind |-> "none"]
Undefined == [kind |-> "undefined"]
Null == [kind |-> "null"]

\* The parts of the model a specification does not exercise stay as they are here.
FromIdle == parts = [hasAs |-> FALSE] /\ line = <<>> /\ fromMatch = NotRun
GlobIdle == fileName = <<>> /\ path = <<>> /\ globMatch = NotRun
PickIdle ==
    /\ pickPc = "idle" /\ pickIncludeAll = "undefined" /\ pickFetch = None
    /\ pickItems = <<>> /\ pickShown = 0 /\ pickUi = None /\ pickResult = None
ExtFields ==
    {"context", "outputChannel", "ui", "reporter", "terminalProvider", "keytar",
     "packageInfo", "request"}
NoConfigChanges ==
    [handled |-> 0, docker |-> 0, notifications |-> 0, endpointRefreshes |-> 0,
     explorerRefreshes |-> 0]
ConfigIdle == configCounts = NoConfigChanges /\ lastConfigChange = None
ActIdle ==
    /\ actPc = 0 /\ actState = "notCalled" /\ activateResult = "none"
    /\ ext = [f \in ExtFields |-> "unset"] /\ injected = {}
    /\ registered = {} /\ hoverKeyInfo = "none" /\ consolidated = FALSE
    /\ client = "none" /\ listener = "none" /\ timerSet = FALSE /\ azure = "idle"
    /\ commandRan = "none" /\ lastHover = None
    /\ ConfigIdle

(***************************************************************************)
(* Characters                                                              *)
(***************************************************************************)
Uppers == <<"A","B","C","D","E","F","G","H","I","J","K","L","M",
            "N","O","P","Q","R","S","T","U","V","W","X","Y","Z">>
Lowers == <<"a","b","c","d","e","f","g","h","i","j","k","l","m",
            "n","o","p","q","r","s","t","u","v","w","x","y","z">>
Digits == {"0","1","2","3","4","5","6","7","8","9"}

UpperSet == {Uppers[i] : i \in 1..Len(Uppers)}
LowerSet == {Lowers[i] : i \in 1..Len(Lowers)}

\* Canonical lower-case form of a character (what the i flag compares).
ToLower(c) ==
    IF c \in UpperSet
    THEN Lowers[CHOOSE i \in 1..Len(Uppers) : Uppers[i] = c]
    ELSE c

\* \s of a JavaScript regular expression (the blanks that occur in a line).
SpaceClass == {" ", "\t"}

\* \w of a JavaScript regular expression: [A-Za-z0-9_].
WordClass == UpperSet \cup LowerSet \cup Digits \cup {"_"}

\* FROM_DIRECTIVE_PATTERN, a regular expression with the i flag, in order:
\*   ^\s*FROM\s*
\*   capture group 1:            [\w-\/:]*
\*   capture group 2, optional:  \s*AS\s*[a-z][a-z0-9-_\\.]*
\*   $

\* The i flag of the pattern.
NoIgnoreCase == FALSE
IgnoreCase == TRUE

\* A literal pattern character against an input character.
LitEq(p, c) == IF IgnoreCase THEN ToLower(p) = ToLower(c) ELSE p = c

\* The range a-z of a character class.
RangeAZ == IF IgnoreCase THEN LowerSet \cup UpperSet ELSE LowerSet

\* The class [\w-\/:] of capture group 1.
ImageClass == WordClass \cup {"-", "/", ":"}

\* The class [a-z] that starts the alias.
AliasFirstClass == RangeAZ

\* The class [a-z0-9-_\\.] of the rest of the alias: the escaped backslash is a
\* member of the class, followed by a plain dot.
AliasRestClass == RangeAZ \cup Digits \cup {"-", "_", "\\", "."}

\* Greedy X*: the position after the longest run, from position i of s, of
\* characters of the class cls.
RECURSIVE Star(_, _, _)
Star(cls, s, i) ==
    IF i <= Len(s) /\ s[i] \in cls THEN Star(cls, s, i + 1) ELSE i

\* A literal word at position i of s; the position after it, or 0.
Lit(word, s, i) ==
    IF i + Len(word) - 1 <= Len(s)
       /\ \A k \in 1..Len(word) : LitEq(word[k], s[i + k - 1])
    THEN i + Len(word)
    ELSE 0

\* The optional group 2, \s*AS\s*[a-z][a-z0-9-_\\.]*, tried at position p and
\* followed by $. Its greedy stars cannot give a character back: the atom that
\* follows a \s* never matches a blank, and the last star is followed by $.
\* [ok, q1, q2, q3]: after the blanks, after AS, after the second blanks.
AliasClauseAt(s, p) ==
    LET q1 == Star(SpaceClass, s, p)
        q2 == Lit(<<"A", "S">>, s, q1)
        q3 == IF q2 = 0 THEN 0 ELSE Star(SpaceClass, s, q2)
        ok == /\ q2 # 0
              /\ q3 <= Len(s)
              /\ s[q3] \in AliasFirstClass
              /\ Star(AliasRestClass, s, q3 + 1) = Len(s) + 1
    IN  [ok |-> ok, q1 |-> q1, q2 |-> q2, q3 |-> q3]

\* What follows group 1 when it ends before position p: group 2 and $, or $.
TailMatches(s, p) == AliasClauseAt(s, p).ok \/ p = Len(s) + 1

NoMatch ==
    [matched |-> FALSE, image |-> <<>>, hasAlias |-> FALSE, aliasGroup |-> <<>>,
     alias |-> <<>>, blanks1 |-> <<>>, blanks2 |-> <<>>, blanks3 |-> <<>>]

\* s.match(FROM_DIRECTIVE_PATTERN): null (NoMatch), or the match with
\*   image      capture group 1
\*   hasAlias   whether capture group 2 took part in the match
\*   aliasGroup capture group 2 (the blanks and the AS keyword included)
\*   alias      the part of group 2 matched by [a-z][a-z0-9-_\\.]*
\*   blanks1, blanks2, blanks3   the text matched by each \s* after FROM
\* Backtracking: group 1 is greedy and gives characters back one at a time
\* until the rest of the pattern matches; at each length group 2 is tried
\* before its absence.
FromDirectiveMatch(s) ==
    LET p1 == Star(SpaceClass, s, 1)
        p2 == Lit(<<"F", "R", "O", "M">>, s, p1)
        p3 == IF p2 = 0 THEN 0 ELSE Star(SpaceClass, s, p2)
        pmax == IF p2 = 0 THEN 0 ELSE Star(ImageClass, s, p3)
        ends == IF p2 = 0 THEN {} ELSE {p \in p3..pmax : TailMatches(s, p)}
    IN  IF ends = {} THEN NoMatch
        ELSE LET p4 == CHOOSE p \in ends : \A q \in ends : q <= p
                 a == AliasClauseAt(s, p4)
             IN  [matched |-> TRUE,
                  image |-> SubSeq(s, p3, p4 - 1),
                  hasAlias |-> a.ok,
                  aliasGroup |-> IF a.ok THEN SubSeq(s, p4, Len(s)) ELSE <<>>,
                  alias |-> IF a.ok THEN SubSeq(s, a.q3, Len(s)) ELSE <<>>,
                  blanks1 |-> SubSeq(s, p2, p3 - 1),
                  blanks2 |-> IF a.ok THEN SubSeq(s, p4, a.q1 - 1) ELSE <<>>,
                  blanks3 |-> IF a.ok THEN SubSeq(s, a.q2, a.q3 - 1) ELSE <<>>]



(***************************************************************************)
(* quickPickImage (commands/utils/quick-pick-image.ts)                     *)
(***************************************************************************)
\* JavaScript truthiness of an optional boolean argument.
Truthy(b) == b = "true"

\* createItem(image, repoTag): an empty tag is labelled '<none>'.
createItem(image, repoTag) ==
    [label |-> IF repoTag = "" THEN "<none>" ELSE repoTag, imageDesc |-> image]

RECURSIVE TagItems(_, _)
TagItems(image, tags) ==
    IF tags = <<>> THEN <<>>
    ELSE <<createItem(image, Head(tags))>> \o TagItems(image, Tail(tags))

\* The body of the loop over images: a dangling image (no RepoTags) gives one
\* item, any other image one item per tag.
ImageItems(image) ==
    IF image.RepoTags = Null
    THEN <<createItem(image, "<none>:<none>")>>
    ELSE TagItems(image, image.RepoTags.tags)

RECURSIVE AllImageItems(_)
AllImageItems(images) ==
    IF images = <<>> THEN <<>>
    ELSE ImageItems(Head(images)) \o AllImageItems(Tail(images))

AllImagesItem == [label |-> "All Images", imageDesc |-> Undefined]

computeItems(images, includeAll) ==
    IF Truthy(includeAll) /\ Len(images) > 0
    THEN <<AllImagesItem>> \o AllImageItems(images)
    ELSE AllImageItems(images)

\* parseError(error).message of vscode-azureextensionui.
ParseErrorMessage(error) == error.message

UnableToConnect == "Unable to connect to Docker, is the Docker daemon running?"
NoImagesMessage == "There are no docker images. Try Docker Build first."

\* The error thrown from the catch block; its message is a template string, kept
\* here as the sequence of its pieces.
RethrownFetchError(error) == error
ConnectError(error) ==
    [name |-> "Error", message |-> <<UnableToConnect, "\n", ParseErrorMessage(error)>>]

NoImagesError == [name |-> "Error", message |-> <<NoImagesMessage>>]

\* !images || images.length === 0 (images.kind is "undefined" or "list")
OnlyUndefinedImages(images) == images = Undefined
HasNoImages(images) == images = Undefined \/ Len(images.list) = 0

UserCancelledError == [name |-> "UserCancelledError", message |-> <<"Operation cancelled.">>]

\* What the daemon can answer with.
MaxImages == 2
ImageIds == {"sha1", "sha2"}
TagLists ==
    {Null, [tags |-> <<>>], [tags |-> <<"">>], [tags |-> <<"app:1">>],
     [tags |-> <<"app:1", "app:latest">>]}
ImageDescs == [Id : ImageIds, RepoTags : TagLists]
ImageLists == UNION {[1..k -> ImageDescs] : k \in 0..MaxImages}
DaemonErrors ==
    { [name |-> "Error", message |-> <<"connect ECONNREFUSED /var/run/docker.sock">>],
      [name |-> "Error", message |-> <<UnableToConnect>>] }

\* quickPickImage(includeAll) up to its first await: docker.getImageDescriptors
\* has been called with the dangling filter.
QuickPickImage(includeAll) ==
    /\ pickPc = "idle"
    /\ pickPc' = "fetching"
    /\ pickIncludeAll' = includeAll
    /\ UNCHANGED <<pickFetch, pickItems, pickShown, pickUi, pickResult>>
    /\ UNCHANGED <<fromVars, globVars, actVars>>

\* The await rejects: the catch block throws.
FetchRejected(error) ==
    /\ pickPc = "fetching"
    /\ pickFetch' = [kind |-> "rejected", error |-> error]
    /\ pickResult' = [kind |-> "thrown", error |-> ConnectError(error)]
    /\ pickPc' = "done"
    /\ UNCHANGED <<pickIncludeAll, pickItems, pickShown, pickUi>>
    /\ UNCHANGED <<fromVars, globVars, actVars>>

\* The await resolves: either the no-images error is thrown, or the items are
\* computed and ext.ui.showQuickPick is called and awaited.
FetchResolved(images) ==
    /\ pickPc = "fetching"
    /\ pickFetch' = [kind |-> "resolved", images |-> images]
    /\ IF HasNoImages(images)
       THEN /\ pickResult' = [kind |-> "thrown", error |-> NoImagesError]
            /\ pickPc' = "done"
            /\ UNCHANGED <<pickItems, pickShown>>
       ELSE /\ pickItems' = computeItems(images.list, pickIncludeAll)
            /\ pickShown' = pickShown + 1
            /\ pickPc' = "picking"
            /\ UNCHANGED pickResult
    /\ UNCHANGED <<pickIncludeAll, pickUi>>
    /\ UNCHANGED <<fromVars, globVars, actVars>>

\* What quickPickImage settles with once showQuickPick has settled with outcome:
\* the promise is returned as it is.
ReturnedOutcome(outcome) == outcome

\* The user picks item i of the quick pick.
UserPicks(i) ==
    /\ pickPc = "picking"
    /\ i \in 1..Len(pickItems)
    /\ pickUi' = [kind |-> "returned", value |-> pickItems[i]]
    /\ pickResult' = ReturnedOutcome(pickUi')
    /\ pickPc' = "done"
    /\ UNCHANGED <<pickIncludeAll, pickFetch, pickItems, pickShown>>
    /\ UNCHANGED <<fromVars, globVars, actVars>>

\* The user dismisses the quick pick: ext.ui.showQuickPick throws.
UserCancels ==
    /\ pickPc = "picking"
    /\ pickUi' = [kind |-> "thrown", error |-> UserCancelledError]
    /\ pickResult' = ReturnedOutcome(pickUi')
    /\ pickPc' = "done"
    /\ UNCHANGED <<pickIncludeAll, pickFetch, pickItems, pickShown>>
    /\ UNCHANGED <<fromVars, globVars, actVars>>

InitPick == PickIdle /\ FromIdle /\ GlobIdle /\ ActIdle

NextPick ==
    \/ \E includeAll \in {"undefined", "true", "false"} : QuickPickImage(includeAll)
    \/ \E error \in DaemonErrors : FetchRejected(error)
    \/ \E images \in {Undefined} \cup {[kind |-> "list", list |-> l] : l \in ImageLists} :
          FetchResolved(images)
    \/ \E i \in 1..Len(pickItems) : UserPicks(i)
    \/ UserCancels

SpecPick == InitPick /\ [][NextPick]_vars

(***************************************************************************)
(* Dockerfile lines under test                                             *)
(***************************************************************************)
MaxImageLen == 2
MaxAliasLen == 2

BoundedSeqs(S, n) == UNION {[1..k -> S] : k \in 0..n}

\* A word character, a colon, a dot, and a character of no class.
ImageAlphabet == {"n", ":", ".", "@"}
\* A letter, a dot, a backslash, and a character of no class.
AliasAlphabet == {"x", ".", "\\", "@"}

NodeImage == <<"n","o","d","e",":","1","4">>
RegistryImage == <<"m","y",".","r","e","g","i","s","t","r","y","/","a","p","p",":","1">>
ExampleImages == {NodeImage, RegistryImage, <<"a","-","b","/","c","_","d">>}
BuilderAlias == <<"b","u","i","l","d","e","r">>
ExampleAliases == {BuilderAlias, <<"B","-","1","_","x",".","y">>}

Images == BoundedSeqs(ImageAlphabet, MaxImageLen) \cup ExampleImages
Aliases == BoundedSeqs(AliasAlphabet, MaxAliasLen) \cup ExampleAliases
Blanks == {<<>>, <<" ">>}

\* The pieces a line is written from: lead kw sep1 image [sep2 as sep3 alias] trail.
LineParts ==
    [lead : {<<>>, <<"\t">>},
     kw : {<<"F","R","O","M">>, <<"F","r","o","m">>},
     sep1 : Blanks, image : Images,
     hasAs : {FALSE}, sep2 : {<<>>}, as : {<<>>}, sep3 : {<<>>}, alias : {<<>>},
     trail : Blanks]
    \cup
    [lead : {<<>>, <<"\t">>},
     kw : {<<"F","R","O","M">>, <<"F","r","o","m">>},
     sep1 : Blanks, image : Images,
     hasAs : {TRUE}, sep2 : Blanks, as : {<<"A","S">>}, sep3 : Blanks, alias : Aliases,
     trail : Blanks]

LineOf(p) ==
    p.lead \o p.kw \o p.sep1 \o p.image \o p.sep2 \o p.as \o p.sep3 \o p.alias \o p.trail

InitFrom ==
    /\ parts \in LineParts
    /\ line = LineOf(parts)
    /\ fromMatch = NotRun
    /\ GlobIdle
    /\ PickIdle
    /\ ActIdle

\* textLine.match(FROM_DIRECTIVE_PATTERN) on the line under test.
ExecFromPattern ==
    /\ fromMatch = NotRun
    /\ fromMatch' = <<FromDirectiveMatch(line)>>
    /\ UNCHANGED <<parts, line, globVars, pickVars, actVars>>

NextFrom == ExecFromPattern

SpecFrom == InitFrom /\ [][NextFrom]_vars


(***************************************************************************)
(* Claims about FROM_DIRECTIVE_PATTERN (checked under SpecFrom)            *)
(***************************************************************************)
FromRan == fromMatch # NotRun
FromResult == fromMatch[1]

AllChars(cls, s) == \A k \in 1..Len(s) : s[k] \in cls
Letters == UpperSet \cup LowerSet

\* An image reference written with word characters, hyphen, slash and colon.
PlainRefChars == WordClass \cup {"-", "/", ":"}
\* An image reference as the specification admits it: the same, and the dot.
SpecRefChars == PlainRefChars \cup {"."}
\* A stage alias as the specification admits it: a letter, then identifier
\* characters, hyphen and dot.
SpecAliasChars == WordClass \cup {"-", "."}
IsSpecAlias(a) == Len(a) >= 1 /\ a[1] \in Letters /\ AllChars(SpecAliasChars, a)

\* The line is `FROM <image>` or `FROM <image> AS <alias>`: blanks separate the
\* keywords from the image and the alias, and the line ends with its last word.
WellSeparated ==
    /\ parts.sep1 # <<>>
    /\ parts.trail = <<>>
    /\ parts.hasAs => parts.sep2 # <<>> /\ parts.sep3 # <<>> /\ IsSpecAlias(parts.alias)

PlainFromLine ==
    WellSeparated /\ parts.image # <<>> /\ AllChars(PlainRefChars, parts.image)

DottedFromLine ==
    /\ WellSeparated
    /\ AllChars(SpecRefChars, parts.image)
    /\ \E k \in 1..Len(parts.image) : parts.image[k] = "."

\* C2: every line `FROM <image>` whose image is written with word characters,
\* hyphen, slash, colon and dot and contains a dot, with or without `AS <alias>`,
\* matches the pattern and yields the full image reference.
C2_DottedImageAccepted ==
    (FromRan /\ DottedFromLine) =>
        FromResult.matched /\ FromResult.image = parts.image

\* C3: the alias of every line the pattern matches with an alias starts with a
\* letter and holds only letters, digits, underscore, hyphen and dot.
C3_AliasCharacters ==
    (FromRan /\ FromResult.matched /\ FromResult.hasAlias) =>
        IsSpecAlias(FromResult.alias)

\* C4: the pattern matches only when FROM is followed by at least one blank and
\* a non-empty image, and matches an AS clause only when blanks separate AS from
\* the image and from the alias.
C4_SeparatorsRequired ==
    (FromRan /\ FromResult.matched) =>
        /\ FromResult.blanks1 # <<>>
        /\ FromResult.image # <<>>
        /\ FromResult.hasAlias =>
              FromResult.blanks2 # <<>> /\ FromResult.blanks3 # <<>>


(***************************************************************************)
(* DOCKERFILE_GLOB_PATTERN = '**/{*.dockerfile,[dD]ocker[fF]ile}'          *)
(* A glob is the set of its brace alternatives, each a sequence of tokens. *)
(***************************************************************************)
GlobStar == [t |-> "globstar", cs |-> {}]        \* **/  whole path segments
AnyRun == [t |-> "star", cs |-> {}]              \* *    a run inside a segment
OneOf(cs) == [t |-> "class", cs |-> cs]          \* [..] one of the characters
Text(w) == [k \in 1..Len(w) |-> OneOf({w[k]})]   \* literal characters

\* The glob the specification quotes: **/{*.dockerfile,[dD]ockerfile}
SpecDockerfileGlob ==
    { <<GlobStar, AnyRun>> \o Text(<<".","d","o","c","k","e","r","f","i","l","e">>),
      <<GlobStar, OneOf({"d", "D"})>> \o Text(<<"o","c","k","e","r","f","i","l","e">>) }

DOCKERFILE_GLOB_PATTERN ==
    { <<GlobStar, AnyRun>> \o Text(<<".","d","o","c","k","e","r","f","i","l","e">>),
      <<GlobStar, OneOf({"d", "D"})>> \o Text(<<"o","c","k","e","r">>)
          \o <<OneOf({"f", "F"})>> \o Text(<<"i","l","e">>) }

\* Whether tokens i.. of pat match characters j.. of s (case-sensitive).
RECURSIVE GlobFrom(_, _, _, _)
GlobFrom(pat, i, s, j) ==
    IF i > Len(pat) THEN j > Len(s)
    ELSE CASE pat[i].t = "class" ->
                 j <= Len(s) /\ s[j] \in pat[i].cs /\ GlobFrom(pat, i + 1, s, j + 1)
           [] pat[i].t = "star" ->
                 \/ GlobFrom(pat, i + 1, s, j)
                 \/ j <= Len(s) /\ s[j] # "/" /\ GlobFrom(pat, i, s, j + 1)
           [] pat[i].t = "globstar" ->
                 \/ GlobFrom(pat, i + 1, s, j)
                 \/ \E k \in j..Len(s) : s[k] = "/" /\ GlobFrom(pat, i + 1, s, k + 1)

\* Whether a path matches a glob: one of the brace alternatives matches all of it.
GlobMatches(glob, s) == \E pat \in glob : GlobFrom(pat, 1, s, 1)

\* Whether the host classifies the path as a Dockerfile.
IsDockerfilePath(s) == GlobMatches(DOCKERFILE_GLOB_PATTERN, s)

(***************************************************************************)
(* Paths under test                                                        *)
(***************************************************************************)
MaxDirDepth == 1

DockerfileWord == <<"d","o","c","k","e","r","f","i","l","e">>
ToUpper(c) ==
    IF c \in LowerSet
    THEN Uppers[CHOOSE i \in 1..Len(Lowers) : Lowers[i] = c]
    ELSE c
LowerWord(w) == [k \in 1..Len(w) |-> ToLower(w[k])]

\* Every upper/lower-case spelling of a word.
Spellings(w) ==
    {[k \in 1..Len(w) |-> IF k \in up THEN ToUpper(w[k]) ELSE w[k]] :
        up \in SUBSET (1..Len(w))}

Stems == {<<>>, <<"x">>, <<"x",".","y">>, <<"D","o","c","k","e","r","f","i","l","e">>}
Extensions ==
    { <<".">> \o DockerfileWord,
      <<".","D","o","c","k","e","r","f","i","l","e">>,
      <<".">> \o DockerfileWord \o <<"x">>,
      <<".","d","o","c","k","e","r">>,
      <<".","y","m","l">> }
FileNames ==
    Spellings(DockerfileWord)
    \cup {st \o ex : st \in Stems, ex \in Extensions}
    \cup {<<"x">> \o DockerfileWord, DockerfileWord \o <<"x">>, <<"d","o","c","k","e","r">>}

DirNames ==
    {<<"s","r","c">>, <<"D","o","c","k","e","r","f","i","l","e">>,
     <<"a",".","d","o","c","k","e","r","f","i","l","e">>}
RECURSIVE JoinDirs(_)
JoinDirs(ds) == IF ds = <<>> THEN <<>> ELSE ds[1] \o <<"/">> \o JoinDirs(Tail(ds))
DirPrefixes == {JoinDirs(ds) : ds \in BoundedSeqs(DirNames, MaxDirDepth)}

InitGlob ==
    /\ fileName \in FileNames
    /\ \E d \in DirPrefixes : path = d \o fileName
    /\ globMatch = NotRun
    /\ FromIdle
    /\ PickIdle
    /\ ActIdle

\* The host matches the document's path against DOCKERFILE_GLOB_PATTERN.
ClassifyPath ==
    /\ globMatch = NotRun
    /\ globMatch' = <<IsDockerfilePath(path)>>
    /\ UNCHANGED <<fileName, path, fromVars, pickVars, actVars>>

NextGlob == ClassifyPath

SpecGlob == InitGlob /\ [][NextGlob]_vars

(***************************************************************************)
(* Claims about DOCKERFILE_GLOB_PATTERN (checked under SpecGlob)           *)
(***************************************************************************)
GlobRan == globMatch # NotRun
GlobResult == globMatch[1]

EndsWith(s, suffix) ==
    Len(s) >= Len(suffix) /\ SubSeq(s, Len(s) - Len(suffix) + 1, Len(s)) = suffix

\* dockerfile with d and f in either case and every other letter in lower case.
FourSpellings ==
    {<<d>> \o <<"o","c","k","e","r">> \o <<f>> \o <<"i","l","e">> :
        d \in {"d", "D"}, f \in {"f", "F"}}

C7_FetchFailureWrapped ==
    pickFetch.kind = "rejected" =>
        /\ pickPc = "done"
        /\ pickResult.kind = "thrown"
        /\ pickResult.error.name = "Error"
        /\ Head(pickResult.error.message) = UnableToConnect
        /\ pickResult.error # pickFetch.error
        /\ pickShown = 0

\* The daemon refused the connection and quickPickImage has thrown.
C7_Witness ==
    /\ pickFetch.kind = "rejected"
    /\ pickFetch.error.message = <<"connect ECONNREFUSED /var/run/docker.sock">>
    /\ pickResult.kind = "thrown"

ResolvedWithoutImages ==
    /\ pickFetch.kind = "resolved"
    /\ pickFetch.images = Undefined \/ pickFetch.images.list = <<>>

ResolvedWithImages ==
    /\ pickFetch.kind = "resolved"
    /\ pickFetch.images # Undefined
    /\ Len(pickFetch.images.list) >= 1

\* C8: when the daemon returns no images (an empty list or none at all)
\* quickPickImage throws the no-images error and never shows the quick pick; the
\* quick pick is shown, exactly once, only when at least one image was returned,
\* and its outcome (the chosen item or a thrown UserCancelledError) is what
\* quickPickImage settles with.
C8_NoImagesOrOnePick ==
    /\ ResolvedWithoutImages =>
          /\ pickPc = "done"
          /\ pickResult = [kind |-> "thrown", error |-> NoImagesError]
          /\ pickShown = 0
    /\ pickShown = (IF ResolvedWithImages THEN 1 ELSE 0)
    /\ (pickPc = "done" /\ pickShown = 1) =>
          /\ pickResult = pickUi
          /\ \/ /\ pickUi.kind = "returned"
                /\ \E i \in 1..Len(pickItems) : pickUi.value = pickItems[i]
             \/ pickUi = [kind |-> "thrown", error |-> UserCancelledError]

\* Two images came back, the quick pick was shown and the user chose a tag.
C8_Witness ==
    /\ pickPc = "done" /\ pickShown = 1
    /\ Len(pickFetch.images.list) = 2
    /\ pickResult.kind = "returned"
    /\ pickResult.value.label = "app:latest"


(***************************************************************************)
(* activate, initializeExtensionVariables and what they start              *)
(* (dockerExtension.ts). JavaScript runs a block to its next await without *)
(* interleaving: the statements of activate are single steps, and no other *)
(* callback runs while actState is "running".                              *)
(***************************************************************************)

\* The statements of initializeExtensionVariables, in order.
InitializeProgram ==
    <<"registerUIExtensionVariables", "ext.ui", "ext.context", "ext.packageInfo",
      "ext.outputChannel", "ext.terminalProvider", "ext.reporter", "ext.keytar",
      "ext.request">>

\* The statements of the callback activate hands to
\* callWithTelemetryAndErrorHandling, in order.
CallbackProgramTimerFirst ==
    <<"dockerfileCompletion", "composeHover", "composeCompletion", "inspectContent",
      "registerDockerCommands", "dockerDebugConfig", "coreclrDebugConfig",
      "setTimeout", "consolidateDefaultRegistrySettings", "activateLanguageClient">>
CallbackProgram ==
    <<"dockerfileCompletion", "composeHover", "composeCompletion", "inspectContent",
      "registerDockerCommands", "dockerDebugConfig", "coreclrDebugConfig",
      "consolidateDefaultRegistrySettings", "activateLanguageClient", "setTimeout">>

\* activate: the extension variables first, then the callback.
ActivateProgramRegisterFirst == CallbackProgram \o InitializeProgram
ActivateProgram == InitializeProgram \o CallbackProgram

Range(seq) == {seq[k] : k \in 1..Len(seq)}
InitializeStmts == Range(InitializeProgram)
CallbackStmts == Range(CallbackProgram)

\* The commands registerDockerCommands registers.
DockerCommands ==
    {"vscode-docker.explorer.refresh", "vscode-docker.configure",
     "vscode-docker.api.configure", "vscode-docker.container.start",
     "vscode-docker.container.start.interactive",
     "vscode-docker.container.start.azurecli", "vscode-docker.container.stop",
     "vscode-docker.container.restart", "vscode-docker.container.show-logs",
     "vscode-docker.container.open-shell", "vscode-docker.container.remove",
     "vscode-docker.image.build", "vscode-docker.image.inspect",
     "vscode-docker.image.remove", "vscode-docker.image.push",
     "vscode-docker.image.tag", "vscode-docker.compose.up",
     "vscode-docker.compose.down", "vscode-docker.compose.restart",
     "vscode-docker.system.prune", "vscode-docker.dockerHubLogout",
     "vscode-docker.browseDockerHub", "vscode-docker.connectCustomRegistry",
     "vscode-docker.disconnectCustomRegistry", "vscode-docker.setRegistryAsDefault",
     "vscode-docker.browseAzurePortal", "vscode-docker.createWebApp",
     "vscode-docker.delete-ACR-Registry", "vscode-docker.delete-ACR-Image",
     "vscode-docker.delete-ACR-Repository", "vscode-docker.create-ACR-Registry",
     "vscode-docker.pull-ACR-Image"}

\* What each registering statement registers with the host.
Registrations(stmt) ==
    CASE stmt = "dockerfileCompletion" -> {"completion:dockerfile"}
      [] stmt = "composeHover" -> {"hover:yaml"}
      [] stmt = "composeCompletion" -> {"completion:yaml"}
      [] stmt = "inspectContent" -> {"content:docker-inspect"}
      [] stmt = "registerDockerCommands" -> {"tree:dockerExplorer"} \cup DockerCommands
      [] stmt = "dockerDebugConfig" -> {"debug:docker"}
      [] stmt = "coreclrDebugConfig" -> {"debug:docker-coreclr"}
      [] OTHER -> {}

RegisteringStmts == {st \in CallbackStmts : Registrations(st) # {}}
AllRegistrations == UNION {Registrations(st) : st \in RegisteringStmts}

\* The statements that call into the host or a library and may throw.
MayThrow ==
    (InitializeStmts \cup CallbackStmts)
        \ {"ext.context", "consolidateDefaultRegistrySettings"}

\* if (!ext.x) { ext.x = <the default> }
KeepInjected(value) == IF value = "unset" THEN "default" ELSE value
\* ext.x = <a value>
Assigned(value) == "set"
\* the key table handed to new DockerComposeHoverProvider: composeVersionKeys.All
HoverProviderKeyInfo == "All"

Running == actState = "running"
At(stmt) == Running /\ ActivateProgram[actPc] = stmt

\* The statement after the current one; the callback's body is done after the last.
Advance ==
    /\ actPc' = actPc + 1
    /\ actState' = IF actPc = Len(ActivateProgram) THEN "bodyDone" ELSE "running"

InitAct ==
    /\ actPc = 0 /\ actState = "notCalled" /\ activateResult = "none"
    /\ injected \in SUBSET {"ui", "terminalProvider", "keytar"}
    /\ ext = [f \in ExtFields |-> IF f \in injected THEN "injected" ELSE "unset"]
    /\ registered = {} /\ hoverKeyInfo = "none" /\ consolidated = FALSE
    /\ client = "none" /\ listener = "none" /\ timerSet = FALSE /\ azure = "idle"
    /\ commandRan = "none" /\ lastHover = None
    /\ ConfigIdle
    /\ FromIdle /\ GlobIdle /\ PickIdle

RestIdle ==
    UNCHANGED <<fromVars, globVars, pickVars, injected, configCounts, lastConfigChange>>

\* The host calls activate(ctx).
CallActivate ==
    /\ actState = "notCalled"
    /\ actPc' = 1 /\ actState' = "running" /\ activateResult' = "pending"
    /\ UNCHANGED <<ext, registered, hoverKeyInfo, consolidated, client, listener,
                   timerSet, azure, commandRan, lastHover>>
    /\ RestIdle

\* registerUIExtensionVariables(ext)
RegisterUIExtensionVariables ==
    /\ At("registerUIExtensionVariables")
    /\ Advance
    /\ UNCHANGED <<activateResult, ext, registered, hoverKeyInfo, consolidated, client,
                   listener, timerSet, azure, commandRan, lastHover>>
    /\ RestIdle

\* One statement of initializeExtensionVariables that writes, or keeps, ext[field].
ExtStatement(stmt, field, value) ==
    /\ At(stmt)
    /\ ext' = [ext EXCEPT ![field] = value]
    /\ Advance
    /\ UNCHANGED <<activateResult, registered, hoverKeyInfo, consolidated, client,
                   listener, timerSet, azure, commandRan, lastHover>>
    /\ RestIdle

InitUi == ExtStatement("ext.ui", "ui", KeepInjected(ext.ui))
SetContext == ExtStatement("ext.context", "context", Assigned("ctx"))
SetPackageInfo == ExtStatement("ext.packageInfo", "packageInfo", Assigned("package.json"))
SetOutputChannel == ExtStatement("ext.outputChannel", "outputChannel", Assigned("channel"))
InitTerminalProvider ==
    ExtStatement("ext.terminalProvider", "terminalProvider", KeepInjected(ext.terminalProvider))
SetReporter == ExtStatement("ext.reporter", "reporter", Assigned("reporter"))
\* if (!ext.keytar) { Keytar.tryCreate(); }   the result is not assigned
InitKeytar == ExtStatement("ext.keytar", "keytar", ext.keytar)
SetRequest == ExtStatement("ext.request", "request", Assigned("request.defaults"))

\* A statement of the callback that registers providers or commands.
RegisterStatement(stmt) ==
    /\ At(stmt)
    /\ registered' = registered \cup Registrations(stmt)
    /\ hoverKeyInfo' = IF stmt = "composeHover" THEN HoverProviderKeyInfo ELSE hoverKeyInfo
    /\ Advance
    /\ UNCHANGED <<activateResult, ext, consolidated, client, listener, timerSet, azure,
                   commandRan, lastHover>>
    /\ RestIdle

\* await consolidateDefaultRegistrySettings(): the call; the callback is suspended.
AwaitConsolidate ==
    /\ At("consolidateDefaultRegistrySettings")
    /\ actState' = "awaiting"
    /\ UNCHANGED <<actPc, activateResult, ext, registered, hoverKeyInfo, consolidated,
                   client, listener, timerSet, azure, commandRan, lastHover>>
    /\ RestIdle

\* The awaited promise resolves: the callback resumes with its next statement.
ConsolidateResolves ==
    /\ actState = "awaiting"
    /\ consolidated' = TRUE
    /\ Advance
    /\ UNCHANGED <<activateResult, ext, registered, hoverKeyInfo, client, listener,
                   timerSet, azure, commandRan, lastHover>>
    /\ RestIdle

\* The awaited promise rejects: callWithTelemetryAndErrorHandling handles the error.
ConsolidateRejects ==
    /\ actState = "awaiting"
    /\ actState' = "callbackFailed"
    /\ UNCHANGED <<actPc, activateResult, ext, registered, hoverKeyInfo, consolidated,
                   client, listener, timerSet, azure, commandRan, lastHover>>
    /\ RestIdle

\* activateLanguageClient(ctx): the client is created, Configuration.initialize is
\* queued on client.onReady(), and client.start() is called.
ActivateLanguageClient ==
    /\ At("activateLanguageClient")
    /\ client' = "starting"
    /\ Advance
    /\ UNCHANGED <<activateResult, ext, registered, hoverKeyInfo, consolidated, listener,
                   timerSet, azure, commandRan, lastHover>>
    /\ RestIdle

\* setTimeout(() => AzureUtilityManager.getInstance().tryGetAzureAccount(), 1)
SetTimeout ==
    /\ At("setTimeout")
    /\ timerSet' = TRUE
    /\ Advance
    /\ UNCHANGED <<activateResult, ext, registered, hoverKeyInfo, consolidated, client,
                   listener, azure, commandRan, lastHover>>
    /\ RestIdle

\* A statement throws. In initializeExtensionVariables the exception leaves
\* activate, whose promise rejects; in the callback it is caught and handled by
\* callWithTelemetryAndErrorHandling.
StatementThrows ==
    /\ Running
    /\ ActivateProgram[actPc] \in MayThrow
    /\ IF ActivateProgram[actPc] \in InitializeStmts
       THEN actState' = "initFailed" /\ activateResult' = "rejected"
       ELSE actState' = "callbackFailed" /\ UNCHANGED activateResult
    /\ UNCHANGED <<actPc, ext, registered, hoverKeyInfo, consolidated, client, listener,
                   timerSet, azure, commandRan, lastHover>>
    /\ RestIdle

\* await callWithTelemetryAndErrorHandling(...) is over: activate's promise resolves.
ActivateMayReturn == actState \in {"bodyDone", "callbackFailed"}
ActivateReturns ==
    /\ ActivateMayReturn
    /\ activateResult = "pending"
    /\ activateResult' = "resolved"
    /\ UNCHANGED <<actPc, actState, ext, registered, hoverKeyInfo, consolidated, client,
                   listener, timerSet, azure, commandRan, lastHover>>
    /\ RestIdle

\* The timer fires: tryGetAzureAccount() is invoked.
TimerFires ==
    /\ ~Running
    /\ timerSet
    /\ timerSet' = FALSE
    /\ azure' = "loading"
    /\ UNCHANGED <<actPc, actState, activateResult, ext, registered, hoverKeyInfo,
                   consolidated, client, listener, commandRan, lastHover>>
    /\ RestIdle

\* tryGetAzureAccount() settles.
AzureAccountSettles ==
    /\ ~Running
    /\ azure = "loading"
    /\ azure' = "loaded"
    /\ UNCHANGED <<actPc, actState, activateResult, ext, registered, hoverKeyInfo,
                   consolidated, client, listener, timerSet, commandRan, lastHover>>
    /\ RestIdle

\* client.onReady() resolves: Configuration.initialize() attaches the listener.
ClientReady ==
    /\ ~Running
    /\ client = "starting"
    /\ client' = "ready"
    /\ listener' = "attached"
    /\ UNCHANGED <<actPc, actState, activateResult, ext, registered, hoverKeyInfo,
                   consolidated, timerSet, azure, commandRan, lastHover>>
    /\ RestIdle

\* deactivate(): nothing without a client; else the listener is disposed of, if
\* there is one, and the client is stopped.
Deactivate ==
    /\ actState \notin {"notCalled", "running"}
    /\ client \in {"starting", "ready"}
    /\ listener' = IF listener = "attached" THEN "disposed" ELSE listener
    /\ client' = "stopped"
    /\ UNCHANGED <<actPc, actState, activateResult, ext, registered, hoverKeyInfo,
                   consolidated, timerSet, azure, commandRan, lastHover>>
    /\ RestIdle

\* The variables every command callback relies on.
SharedExtFields ==
    {"context", "outputChannel", "ui", "reporter", "terminalProvider", "packageInfo",
     "request"}
ExtReady == \A f \in SharedExtFields : ext[f] # "unset"

\* The host runs the callback of a registered command.
RunCommand(c) ==
    /\ ~Running
    /\ c \in registered \cap DockerCommands
    /\ commandRan' = IF ExtReady THEN "ready" ELSE "unset"
    /\ UNCHANGED <<actPc, actState, activateResult, ext, registered, hoverKeyInfo,
                   consolidated, client, listener, timerSet, azure, lastHover>>
    /\ RestIdle

\* The key tables of dockerComposeKeyInfo: All is the superset; v1 has no
\* top-level services key, v2 has it.
ComposeKeys ==
    [All |-> {"image", "build", "links", "container_name", "services", "volumes", "networks"},
     v1 |-> {"image", "build", "links", "container_name"},
     v2 |-> {"image", "build", "services", "volumes", "networks"}]
HoverWords == ComposeKeys.All \cup {"my-service"}
DeclaredVariants == {"v1", "v2", "none"}

\* DockerComposeHoverProvider: the word under the cursor is looked up in the key
\* table the provider was constructed with.
HoverLookup(table, word) ==
    IF word \in ComposeKeys[table] THEN [kind |-> "description", table |-> table, key |-> word]
    ELSE None

\* The host asks the registered hover provider about a word of a Compose document
\* that declares a variant.
ProvideHover(variant, word) ==
    /\ ~Running
    /\ "hover:yaml" \in registered
    /\ lastHover' = [variant |-> variant, word |-> word, table |-> hoverKeyInfo,
                     result |-> HoverLookup(hoverKeyInfo, word)]
    /\ UNCHANGED <<actPc, actState, activateResult, ext, registered, hoverKeyInfo,
                   consolidated, client, listener, timerSet, azure, commandRan>>
    /\ RestIdle

Next ==
    \/ CallActivate
    \/ RegisterUIExtensionVariables
    \/ InitUi \/ SetContext \/ SetPackageInfo \/ SetOutputChannel
    \/ InitTerminalProvider \/ SetReporter \/ InitKeytar \/ SetRequest
    \/ \E stmt \in RegisteringStmts : RegisterStatement(stmt)
    \/ AwaitConsolidate \/ ConsolidateResolves \/ ConsolidateRejects
    \/ ActivateLanguageClient
    \/ SetTimeout
    \/ StatementThrows
    \/ ActivateReturns
    \/ TimerFires \/ AzureAccountSettles
    \/ ClientReady
    \/ Deactivate
    \/ \E c \in DockerCommands : RunCommand(c)
    \/ \E variant \in DeclaredVariants, word \in HoverWords : ProvideHover(variant, word)

Spec == InitAct /\ [][Next]_vars

(***************************************************************************)
(* Configuration changes (Configuration.initialize)                        *)
(***************************************************************************)
\* The most configuration-change events the listener is followed through.
MaxConfigEvents == 2

\* Settings a change event may report, as the segments of their dotted keys.
DockerHostKey == <<"docker", "host">>
DockerRegistryKey == <<"docker", "defaultRegistryPath">>
EditorKey == <<"editor", "fontSize">>
ConfigKeys == {DockerHostKey, DockerRegistryKey, EditorKey}

\* A change event reports at least one changed setting.
ConfigEvents == SUBSET ConfigKeys \ {{}}

\* e.affectsConfiguration(section): a changed setting lies in the section.
AffectsConfiguration(e, section) == \E key \in e : key[1] = section

NotifyServer == "sendNotification:workspace/didChangeConfiguration"
RefreshEndpoint == "docker.refreshEndpoint"
RefreshExplorer == "executeCommand:vscode-docker.explorer.refresh"

\* A listener that tells the language server of changes to the docker section only.
ConfigurationListenerNotifyInBranch(e) ==
    IF AffectsConfiguration(e, "docker")
    THEN <<NotifyServer, RefreshEndpoint, RefreshExplorer>>
    ELSE <<>>

\* What the listener does with a change event, in the order it does it.
ConfigurationListener(e) ==
    <<NotifyServer>> \o
    (IF AffectsConfiguration(e, "docker") THEN <<RefreshEndpoint, RefreshExplorer>> ELSE <<>>)

Count(effects, x) == Cardinality({i \in DOMAIN effects : effects[i] = x})

\* The host fires onDidChangeConfiguration: the attached listener runs.
ConfigurationChanged(e) ==
    /\ ~Running
    /\ listener = "attached"
    /\ configCounts.handled < MaxConfigEvents
    /\ LET effects == ConfigurationListener(e)
       IN /\ lastConfigChange' = [keys |-> e, effects |-> effects]
          /\ configCounts' =
                [handled |-> configCounts.handled + 1,
                 docker |-> configCounts.docker
                            + (IF AffectsConfiguration(e, "docker") THEN 1 ELSE 0),
                 notifications |-> configCounts.notifications + Count(effects, NotifyServer),
                 endpointRefreshes |->
                     configCounts.endpointRefreshes + Count(effects, RefreshEndpoint),
                 explorerRefreshes |->
                     configCounts.explorerRefreshes + Count(effects, RefreshExplorer)]
    /\ UNCHANGED <<actPc, actState, activateResult, ext, injected, registered, hoverKeyInfo,
                   consolidated, client, listener, timerSet, azure, commandRan, lastHover>>
    /\ UNCHANGED <<fromVars, globVars, pickVars>>

\* Activation, the language client and the configuration listener.
NextConfig ==
    \/ CallActivate
    \/ RegisterUIExtensionVariables
    \/ InitUi \/ SetContext \/ SetPackageInfo \/ SetOutputChannel
    \/ InitTerminalProvider \/ SetReporter \/ InitKeytar \/ SetRequest
    \/ \E stmt \in RegisteringStmts : RegisterStatement(stmt)
    \/ AwaitConsolidate \/ ConsolidateResolves \/ ConsolidateRejects
    \/ ActivateLanguageClient
    \/ SetTimeout
    \/ StatementThrows
    \/ ActivateReturns
    \/ TimerFires \/ AzureAccountSettles
    \/ ClientReady
    \/ Deactivate
    \/ \E e \in ConfigEvents : ConfigurationChanged(e)

SpecConfig == InitAct /\ [][NextConfig]_vars



(***************************************************************************)
(* Claims about activation (checked under Spec)                            *)
(***************************************************************************)
\* The table the specification has the hover provider consult: the one of the
\* declared variant when it holds the key, the all-versions table otherwise.
ExpectedTable(variant, word) ==
    IF variant \in {"v1", "v2"} /\ word \in ComposeKeys[variant] THEN variant ELSE "All"

\* C6: the hover provider activate registers looks a key up in the key table of
\* the document's declared variant (v1 or v2) and uses the all-versions table only
\* when the variant's table has no entry for the key.
C6_VariantTableConsulted ==
    lastHover # None =>
        lastHover.table = ExpectedTable(lastHover.variant, lastHover.word)

\* C9: context, outputChannel, ui, reporter, terminalProvider, packageInfo and
\* request are all set before any provider or command is registered, no command
\* callback ever runs while one of them is unset, and the values of ui,
\* terminalProvider and keytar injected before activation are left as they were.
C9_ExtReadyBeforeRegistration ==
    /\ registered # {} => ExtReady
    /\ commandRan # "unset"
    /\ \A f \in injected : ext[f] = "injected"

\* A command callback has run after an activation that kept an injected ui and
\* keytar and created the default terminal provider.
C9_Witness ==
    /\ commandRan = "ready"
    /\ injected = {"ui", "keytar"}
    /\ ext.ui = "injected" /\ ext.keytar = "injected"
    /\ ext.terminalProvider = "default"

ActivationDone ==
    /\ actState = "bodyDone"
    /\ AllRegistrations \subseteq registered
    /\ consolidated
    /\ client # "none"

\* C10: tryGetAzureAccount is invoked only after every provider and command is
\* registered, the registry settings are consolidated and the language client is
\* started; it is never invoked when an activation step failed; and activate can
\* return whenever its callback is over, whether or not the account has loaded.
C10_AzureAccountAfterActivation ==
    /\ azure # "idle" => ActivationDone
    /\ actState \in {"initFailed", "callbackFailed"} => azure = "idle" /\ ~timerSet
    /\ (actState = "bodyDone" /\ activateResult = "pending") => ENABLED ActivateReturns

\* activate has returned while the Azure account is still loading.
C10_Witness ==
    /\ azure = "loading"
    /\ activateResult = "resolved"
    /\ ActivationDone

(***************************************************************************)
(* Claims about configuration changes (checked under SpecConfig)           *)
(***************************************************************************)
\* Where x stands in a sequence of effects that holds it once.
Position(effects, x) == CHOOSE i \in DOMAIN effects : effects[i] = x

\* Whether a handled change touched a setting of the docker section.
TouchesDocker(keys) == \E key \in keys : Head(key) = "docker"

\* C11: each configuration change the attached listener receives sends the
\* language server exactly one didChangeConfiguration notification, whatever
\* changed; the Docker endpoint is refreshed and the explorer refresh command is
\* issued exactly when the change affects the docker section, the endpoint first;
\* and the listener runs only while it is attached to a ready client.
C11_ConfigurationChangeHandled ==
    /\ lastConfigChange # None =>
          LET effects == lastConfigChange.effects
              docker == TouchesDocker(lastConfigChange.keys)
          IN /\ Count(effects, NotifyServer) = 1
             /\ Count(effects, RefreshEndpoint) = (IF docker THEN 1 ELSE 0)
             /\ Count(effects, RefreshExplorer) = (IF docker THEN 1 ELSE 0)
             /\ docker => Position(effects, RefreshEndpoint) < Position(effects, RefreshExplorer)
    /\ configCounts.notifications = configCounts.handled
    /\ configCounts.endpointRefreshes = configCounts.docker
    /\ configCounts.explorerRefreshes = configCounts.docker
    /\ configCounts.handled > 0 => listener \in {"attached", "disposed"}
    /\ listener = "attached" => client = "ready"

\* Two changes were handled, the last one outside the docker section and the
\* one before inside it.
C11_Witness ==
    /\ configCounts.handled = 2
    /\ configCounts.docker = 1
    /\ configCounts.notifications = 2
    /\ configCounts.endpointRefreshes = 1
    /\ lastConfigChange # None
    /\ lastConfigChange.keys = {EditorKey}
    /\ lastConfigChange.effects = <<NotifyServer>>

=============================================================================
